---------------------------- MODULE Spec2Model ----------------------------
(***************************************************************************)
(* A model of the modal list editor in src/main.rs: the App struct and its *)
(* methods, and the draw / read / dispatch loop of main().                 *)
(*                                                                         *)
(* Strings are sequences of one-character strings.  Option<usize> is a     *)
(* sequence of length 0 (None) or 1 (Some(n)).  Vec indices are 0-based as *)
(* in the source: the element at index n of a Vec v is v[n + 1] here.      *)
(***************************************************************************)
EXTENDS Integers, Sequences, FiniteSets, TLC

\* The number of input events one run of the loop reads.
MaxEvents == 5

\* usize::MAX.  The value is that of the narrowest usize Rust defines; a wider
\* one differs only in this number, which exceeds every Vec length reached.
usize_MAX == 65535

\* ----------------------------------------------------------------- values

None == << >>
Some(n) == << n >>

\* "aaa".to_string() etc. (App::default)
Str(c, n) == [i \in 1..n |-> c]

Mode == {"Normal", "Insert", "Popup"}

\* KeyModifiers: NONE and one representative of the non-empty bit sets.
KeyModifiers == {"NONE", "CONTROL"}

\* The characters a KeyCode::Char carries: the five bound in Normal mode and
\* one that is bound nowhere.
Chars == {"i", "j", "k", "d", "?", "x"}

Key(code, ch, modifiers) ==
    [kind |-> "Key", code |-> code, ch |-> ch, modifiers |-> modifiers]

\* Event: key events (Tab stands for the key codes no arm names) and one
\* event that is not Event::Key.
Events ==
    {Key(code, "", m) : code \in {"Esc", "Enter", "Backspace", "Tab"}, m \in KeyModifiers}
    \cup {Key("Char", c, m) : c \in Chars, m \in KeyModifiers}
    \cup {[kind |-> "Resize", code |-> "", ch |-> "", modifiers |-> "NONE"]}

NoEvent == [kind |-> "None", code |-> "", ch |-> "", modifiers |-> "NONE"]

\* ------------------------------------------------------------------ state

VARIABLES
    app,     \* the App struct: selected_list_index, items, input, mode
    pc,      \* where main() is: "draw", "read", "done" (Ok), "failed" (Err), "panicked"
    event,   \* the event bound by `if let` in the current iteration
    term,    \* the terminal: raw mode, alternate screen, mouse capture
    nread    \* events read so far

vars == << app, pc, event, term, nread >>

\* ------------------------------------------------------------ App methods

enter_insert_mode(a) == [a EXCEPT !.mode = "Insert"]
enter_normal_mode(a) == [a EXCEPT !.mode = "Normal"]
enter_popup_mode(a) == [a EXCEPT !.mode = "Popup"]

\* usize subtraction with overflow checks off: wraps.
usize_sub(x, y) == IF x >= y THEN x - y ELSE usize_MAX - (y - x) + 1

\* usize subtraction with overflow checks on: panics when this holds.
usize_sub_overflows(x, y) == x < y

\* select_next comparing n with len instead of len - 1: never wraps at the end.
select_next_no_wrap(a) ==
    IF a.selected_list_index = None THEN a
    ELSE LET n == a.selected_list_index[1] IN
         IF n # Len(a.items)
         THEN [a EXCEPT !.selected_list_index = Some(n + 1)]
         ELSE [a EXCEPT !.selected_list_index = Some(0)]

\* select_next selecting the first item when nothing is selected.
select_next_selects_first(a) ==
    IF a.selected_list_index = None
    THEN [a EXCEPT !.selected_list_index = Some(0)]
    ELSE LET n == a.selected_list_index[1] IN
         IF n # usize_sub(Len(a.items), 1)
         THEN [a EXCEPT !.selected_list_index = Some(n + 1)]
         ELSE [a EXCEPT !.selected_list_index = Some(0)]

\* select_next stopping at the last index instead of wrapping to 0.
select_next_saturating(a) ==
    IF a.selected_list_index = None THEN a
    ELSE LET n == a.selected_list_index[1] IN
         IF n # usize_sub(Len(a.items), 1)
         THEN [a EXCEPT !.selected_list_index = Some(n + 1)]
         ELSE a

select_next(a) ==
    IF a.selected_list_index = None THEN a
    ELSE LET n == a.selected_list_index[1] IN
         IF n # usize_sub(Len(a.items), 1)
         THEN [a EXCEPT !.selected_list_index = Some(n + 1)]
         ELSE [a EXCEPT !.selected_list_index = Some(0)]

select_next_overflows(a) ==
    a.selected_list_index # None /\ usize_sub_overflows(Len(a.items), 1)

\* select_previous wrapping to len instead of len - 1.
select_previous_wrap_to_len(a) ==
    IF a.selected_list_index = None THEN a
    ELSE LET n == a.selected_list_index[1] IN
         IF n > 0
         THEN [a EXCEPT !.selected_list_index = Some(n - 1)]
         ELSE [a EXCEPT !.selected_list_index = Some(Len(a.items))]

\* select_previous stopping at index 0 instead of wrapping to the end.
select_previous_saturating(a) ==
    IF a.selected_list_index = None THEN a
    ELSE LET n == a.selected_list_index[1] IN
         IF n > 0
         THEN [a EXCEPT !.selected_list_index = Some(n - 1)]
         ELSE a

select_previous(a) ==
    IF a.selected_list_index = None THEN a
    ELSE LET n == a.selected_list_index[1] IN
         IF n > 0
         THEN [a EXCEPT !.selected_list_index = Some(n - 1)]
         ELSE [a EXCEPT !.selected_list_index = Some(usize_sub(Len(a.items), 1))]

select_previous_overflows(a) ==
    /\ a.selected_list_index # None
    /\ a.selected_list_index[1] = 0
    /\ usize_sub_overflows(Len(a.items), 1)

\* push_input_to_items pushing a clone of the input and not draining it.
push_input_to_items_no_drain(a) ==
    LET pushed == [a EXCEPT !.items = Append(a.items, a.input)]
        selected == IF pushed.selected_list_index = None
                    THEN [pushed EXCEPT !.selected_list_index = Some(0)]
                    ELSE pushed
    IN enter_normal_mode(selected)

\* self.items.push(self.input.drain(..).collect()); the cursor; the mode.
push_input_to_items(a) ==
    LET pushed == [a EXCEPT !.items = Append(a.items, a.input), !.input = << >>]
        selected == IF pushed.selected_list_index = None
                    THEN [pushed EXCEPT !.selected_list_index = Some(0)]
                    ELSE pushed
    IN enter_normal_mode(selected)

\* Vec::swap_remove(n) in place of Vec::remove(n): the last element takes the
\* place of the removed one.
swap_remove(v, n) ==
    [i \in 1..(Len(v) - 1) |-> IF i = n + 1 THEN v[Len(v)] ELSE v[i]]

\* Vec::remove(n): the elements after index n shift left by one.
remove(v, n) == [i \in 1..(Len(v) - 1) |-> IF i < n + 1 THEN v[i] ELSE v[i + 1]]

\* Vec::remove panics when the index is out of bounds.
remove_panics(v, n) == n >= Len(v)

\* delete_selected_item without the is_empty branch.
delete_selected_item_no_empty_check(a) ==
    IF a.selected_list_index = None THEN a
    ELSE LET n == a.selected_list_index[1]
             removed == [a EXCEPT !.items = remove(a.items, n)]
         IN IF Len(removed.items) = n
            THEN select_previous(removed)
            ELSE removed

\* delete_selected_item without the re-clamp at the end of the list.
delete_selected_item_no_reclamp(a) ==
    IF a.selected_list_index = None THEN a
    ELSE LET n == a.selected_list_index[1]
             removed == [a EXCEPT !.items = remove(a.items, n)]
         IN IF removed.items = << >>
            THEN [removed EXCEPT !.selected_list_index = None]
            ELSE removed

delete_selected_item(a) ==
    IF a.selected_list_index = None THEN a
    ELSE LET n == a.selected_list_index[1]
             removed == [a EXCEPT !.items = remove(a.items, n)]
         IN IF removed.items = << >>
            THEN [removed EXCEPT !.selected_list_index = None]
            ELSE IF Len(removed.items) = n
                 THEN select_previous(removed)
                 ELSE removed

delete_selected_item_panics(a) ==
    /\ a.selected_list_index # None
    /\ remove_panics(a.items, a.selected_list_index[1])

\* String::push and String::pop on the input buffer.
push(s, c) == Append(s, c)
\* String::remove(0) in place of String::pop.
pop_front(s) == IF s = << >> THEN s ELSE SubSeq(s, 2, Len(s))

pop(s) == IF s = << >> THEN s ELSE SubSeq(s, 1, Len(s) - 1)

\* App::default() selecting the first item.
Default_first_selected ==
    [selected_list_index |-> Some(0),
     items |-> << Str("a", 3), Str("b", 3), Str("c", 3) >>,
     input |-> << >>,
     mode |-> "Normal"]

\* App::default()
Default ==
    [selected_list_index |-> Some(1),
     items |-> << Str("a", 3), Str("b", 3), Str("c", 3) >>,
     input |-> << >>,
     mode |-> "Normal"]

\* ------------------------------------------------------------------ main

\* enable_raw_mode, EnterAlternateScreen and EnableMouseCapture have succeeded.
TermSetUp == [raw_mode |-> TRUE, alternate_screen |-> TRUE, mouse_capture |-> TRUE]

Init ==
    /\ app = Default
    /\ pc = "draw"
    /\ event = NoEvent
    /\ term = TermSetUp
    /\ nread = 0

\* terminal.draw(|f| ui(f, &app))?  succeeds; the previous iteration's event
\* binding is out of scope.
Draw ==
    /\ pc = "draw"
    /\ pc' = "read"
    /\ event' = NoEvent
    /\ UNCHANGED << app, term, nread >>

\* terminal.draw(...)? fails: main returns the error.
DrawFails ==
    /\ pc = "draw"
    /\ pc' = "failed"
    /\ event' = NoEvent
    /\ UNCHANGED << app, term, nread >>

\* event::read()? fails: main returns the error.
ReadFails ==
    /\ pc = "read"
    /\ nread < MaxEvents
    /\ pc' = "failed"
    /\ UNCHANGED << app, event, term, nread >>

\* event::read()? returns e.
Read(e) ==
    /\ pc = "read"
    /\ nread < MaxEvents
    /\ event' = e
    /\ nread' = nread + 1

\* The arms' patterns matching on the key code alone.
Is_any_modifiers(e, code, modifiers) ==
    e.kind = "Key" /\ e.code = code

Is(e, code, modifiers) ==
    e.kind = "Key" /\ e.code = code /\ e.modifiers = modifiers

IsChar(e, c, modifiers) == Is(e, "Char", modifiers) /\ e.ch = c

\* The loop going round to the read without drawing.
Continue_no_draw(a) ==
    /\ app' = a
    /\ pc' = "read"
    /\ UNCHANGED term

\* The arm's body ran to its end: the loop goes round.
Continue(a) ==
    /\ app' = a
    /\ pc' = "draw"
    /\ UNCHANGED term

\* A method that panics when `panics` holds and overflow checks are on (or
\* always, for Vec::remove), and returns a otherwise.
Call(a, panics, may_wrap) ==
    \E o \in (IF panics
              THEN {"panic"} \cup (IF may_wrap THEN {"wrap"} ELSE {})
              ELSE {"return"}) :
        IF o = "panic"
        THEN /\ pc' = "panicked"
             /\ UNCHANGED << app, term >>
        ELSE Continue(a)

\* `if let Event::Key(..) = event::read()?` does not match.
NotKey ==
    \E e \in Events :
        /\ Read(e)
        /\ e.kind # "Key"
        /\ Continue(app)

\* The Esc arm of Insert mode discarding the draft.
InsertEsc_clears ==
    \E e \in Events :
        /\ Read(e)
        /\ app.mode = "Insert"
        /\ Is(e, "Esc", "NONE")
        /\ Continue(enter_normal_mode([app EXCEPT !.input = << >>]))

InsertEsc ==
    \E e \in Events :
        /\ Read(e)
        /\ app.mode = "Insert"
        /\ Is(e, "Esc", "NONE")
        /\ Continue(enter_normal_mode(app))

InsertEnter ==
    \E e \in Events :
        /\ Read(e)
        /\ app.mode = "Insert"
        /\ Is(e, "Enter", "NONE")
        /\ Continue(push_input_to_items(app))

InsertChar ==
    \E e \in Events :
        /\ Read(e)
        /\ app.mode = "Insert"
        /\ Is(e, "Char", "NONE")
        /\ Continue([app EXCEPT !.input = push(app.input, e.ch)])

InsertBackspace ==
    \E e \in Events :
        /\ Read(e)
        /\ app.mode = "Insert"
        /\ Is(e, "Backspace", "NONE")
        /\ Continue([app EXCEPT !.input = pop(app.input)])

InsertOther ==
    \E e \in Events :
        /\ Read(e)
        /\ app.mode = "Insert"
        /\ e.kind = "Key"
        /\ ~ Is(e, "Esc", "NONE")
        /\ ~ Is(e, "Enter", "NONE")
        /\ ~ Is(e, "Char", "NONE")
        /\ ~ Is(e, "Backspace", "NONE")
        /\ Continue(app)

\* The quit arm tested before the match on the mode: Esc quits in every mode.
NormalEsc_any_mode ==
    \E e \in Events :
        /\ Read(e)
        /\ Is(e, "Esc", "NONE")
        /\ \E r \in {"raw_err", "leave_err", "mouse_err", "cursor_err", "ok"} :
              /\ term' = [raw_mode |-> r = "raw_err",
                          alternate_screen |-> r \in {"raw_err", "leave_err"},
                          mouse_capture |-> r \in {"raw_err", "leave_err", "mouse_err"}]
              /\ pc' = IF r = "ok" THEN "done" ELSE "failed"
        /\ UNCHANGED app

\* disable_raw_mode()?; execute!(.., LeaveAlternateScreen, DisableMouseCapture)?;
\* terminal.show_cursor()?; return Ok(()).  Each `?` may return the error.
NormalEsc ==
    \E e \in Events :
        /\ Read(e)
        /\ app.mode = "Normal"
        /\ Is(e, "Esc", "NONE")
        /\ \E r \in {"raw_err", "leave_err", "mouse_err", "cursor_err", "ok"} :
              /\ term' = [raw_mode |-> r = "raw_err",
                          alternate_screen |-> r \in {"raw_err", "leave_err"},
                          mouse_capture |-> r \in {"raw_err", "leave_err", "mouse_err"}]
              /\ pc' = IF r = "ok" THEN "done" ELSE "failed"
        /\ UNCHANGED app

NormalI ==
    \E e \in Events :
        /\ Read(e)
        /\ app.mode = "Normal"
        /\ IsChar(e, "i", "NONE")
        /\ Continue(enter_insert_mode(app))

NormalJ ==
    \E e \in Events :
        /\ Read(e)
        /\ app.mode = "Normal"
        /\ IsChar(e, "j", "NONE")
        /\ Call(select_next(app), select_next_overflows(app), TRUE)

NormalK ==
    \E e \in Events :
        /\ Read(e)
        /\ app.mode = "Normal"
        /\ IsChar(e, "k", "NONE")
        /\ Call(select_previous(app), select_previous_overflows(app), TRUE)

NormalD ==
    \E e \in Events :
        /\ Read(e)
        /\ app.mode = "Normal"
        /\ IsChar(e, "d", "NONE")
        /\ Call(delete_selected_item(app), delete_selected_item_panics(app), FALSE)

NormalHelp ==
    \E e \in Events :
        /\ Read(e)
        /\ app.mode = "Normal"
        /\ IsChar(e, "?", "NONE")
        /\ Continue(enter_popup_mode(app))

NormalOther ==
    \E e \in Events :
        /\ Read(e)
        /\ app.mode = "Normal"
        /\ e.kind = "Key"
        /\ ~ Is(e, "Esc", "NONE")
        /\ \A c \in {"i", "j", "k", "d", "?"} : ~ IsChar(e, c, "NONE")
        /\ Continue(app)

\* The Esc arm of Popup mode missing: the key falls through.
PopupEsc_ignored ==
    \E e \in Events :
        /\ Read(e)
        /\ app.mode = "Popup"
        /\ Is(e, "Esc", "NONE")
        /\ Continue(app)

PopupEsc ==
    \E e \in Events :
        /\ Read(e)
        /\ app.mode = "Popup"
        /\ Is(e, "Esc", "NONE")
        /\ Continue(enter_normal_mode(app))

\* The Enter arm of Popup mode committing the input as in Insert mode.
PopupEnter_commits ==
    \E e \in Events :
        /\ Read(e)
        /\ app.mode = "Popup"
        /\ Is(e, "Enter", "NONE")
        /\ Continue(push_input_to_items(app))

PopupEnter ==
    \E e \in Events :
        /\ Read(e)
        /\ app.mode = "Popup"
        /\ Is(e, "Enter", "NONE")
        /\ Continue(enter_normal_mode(app))

PopupHelp ==
    \E e \in Events :
        /\ Read(e)
        /\ app.mode = "Popup"
        /\ IsChar(e, "?", "NONE")
        /\ Continue(enter_normal_mode(app))

PopupOther ==
    \E e \in Events :
        /\ Read(e)
        /\ app.mode = "Popup"
        /\ e.kind = "Key"
        /\ ~ Is(e, "Esc", "NONE")
        /\ ~ Is(e, "Enter", "NONE")
        /\ ~ IsChar(e, "?", "NONE")
        /\ Continue(app)

Next ==
    \/ Draw
    \/ DrawFails
    \/ ReadFails
    \/ NotKey
    \/ InsertEsc
    \/ InsertEnter
    \/ InsertChar
    \/ InsertBackspace
    \/ InsertOther
    \/ NormalEsc
    \/ NormalI
    \/ NormalJ
    \/ NormalK
    \/ NormalD
    \/ NormalHelp
    \/ NormalOther
    \/ PopupEsc
    \/ PopupEnter
    \/ PopupHelp
    \/ PopupOther

Spec == Init /\ [][Next]_vars

TypeOK ==
    /\ app.mode \in Mode
    /\ pc \in {"draw", "read", "done", "failed", "panicked"}
    /\ event \in Events \cup {NoEvent}
    /\ nread \in 0..MaxEvents

\* ------------------------------------------------- the match as a function

\* dispatch with the Char arm of Insert mode inserting at the front.
dispatch_prepends(a, e) ==
    IF e.kind # "Key" THEN a
    ELSE IF a.mode = "Insert" THEN
        IF Is(e, "Esc", "NONE") THEN enter_normal_mode(a)
        ELSE IF Is(e, "Enter", "NONE") THEN push_input_to_items(a)
        ELSE IF Is(e, "Char", "NONE") THEN [a EXCEPT !.input = << e.ch >> \o a.input]
        ELSE IF Is(e, "Backspace", "NONE") THEN [a EXCEPT !.input = pop(a.input)]
        ELSE a
    ELSE IF a.mode = "Normal" THEN
        IF Is(e, "Esc", "NONE") THEN a
        ELSE IF IsChar(e, "i", "NONE") THEN enter_insert_mode(a)
        ELSE IF IsChar(e, "j", "NONE") THEN select_next(a)
        ELSE IF IsChar(e, "k", "NONE") THEN select_previous(a)
        ELSE IF IsChar(e, "d", "NONE") THEN delete_selected_item(a)
        ELSE IF IsChar(e, "?", "NONE") THEN enter_popup_mode(a)
        ELSE a
    ELSE
        IF Is(e, "Esc", "NONE") THEN enter_normal_mode(a)
        ELSE IF Is(e, "Enter", "NONE") THEN enter_normal_mode(a)
        ELSE IF IsChar(e, "?", "NONE") THEN enter_normal_mode(a)
        ELSE a

\* The App after the body of `if let Event::Key(..) = e { match app.mode ... }`
\* has run on event e: the arms of the three matches, in their order.  The Esc
\* arm of Normal mode returns from main without touching the App.
dispatch(a, e) ==
    IF e.kind # "Key" THEN a
    ELSE IF a.mode = "Insert" THEN
        IF Is(e, "Esc", "NONE") THEN enter_normal_mode(a)
        ELSE IF Is(e, "Enter", "NONE") THEN push_input_to_items(a)
        ELSE IF Is(e, "Char", "NONE") THEN [a EXCEPT !.input = push(a.input, e.ch)]
        ELSE IF Is(e, "Backspace", "NONE") THEN [a EXCEPT !.input = pop(a.input)]
        ELSE a
    ELSE IF a.mode = "Normal" THEN
        IF Is(e, "Esc", "NONE") THEN a
        ELSE IF IsChar(e, "i", "NONE") THEN enter_insert_mode(a)
        ELSE IF IsChar(e, "j", "NONE") THEN select_next(a)
        ELSE IF IsChar(e, "k", "NONE") THEN select_previous(a)
        ELSE IF IsChar(e, "d", "NONE") THEN delete_selected_item(a)
        ELSE IF IsChar(e, "?", "NONE") THEN enter_popup_mode(a)
        ELSE a
    ELSE
        IF Is(e, "Esc", "NONE") THEN enter_normal_mode(a)
        ELSE IF Is(e, "Enter", "NONE") THEN enter_normal_mode(a)
        ELSE IF IsChar(e, "?", "NONE") THEN enter_normal_mode(a)
        ELSE a

\* The arm taken returns from main.
quits(a, e) == a.mode = "Normal" /\ Is(e, "Esc", "NONE")

\* The arm taken calls a method that panics.
dispatch_panics(a, e) ==
    /\ a.mode = "Normal"
    /\ \/ IsChar(e, "j", "NONE") /\ select_next_overflows(a)
       \/ IsChar(e, "k", "NONE") /\ select_previous_overflows(a)
       \/ IsChar(e, "d", "NONE") /\ delete_selected_item_panics(a)

\* dispatch applied to the events of a sequence, in order.
RECURSIVE dispatch_all(_, _)
dispatch_all(a, es) ==
    IF es = << >> THEN a ELSE dispatch_all(dispatch(a, Head(es)), Tail(es))

\* The number of key presses one run of the typing specification reads.
MaxKeys == 8

\* The keys of the typing specification: the ones that empty the list, enter
\* and leave Insert mode, and type and commit "xyz".
TypingEvents ==
    {Key("Esc", "", "NONE"), Key("Enter", "", "NONE")}
    \cup {Key("Char", c, "NONE") : c \in {"i", "d", "x", "y", "z"}}

\* One iteration's read and dispatch of a typing key that does not quit.
KeyPress ==
    \E e \in TypingEvents :
        /\ pc = "read"
        /\ nread < MaxKeys
        /\ ~ quits(app, e)
        /\ ~ dispatch_panics(app, e)
        /\ event' = e
        /\ nread' = nread + 1
        /\ Continue(dispatch(app, e))

\* Esc in Normal mode: the terminal is restored and main returns Ok(()).
KeyQuit ==
    \E e \in TypingEvents :
        /\ pc = "read"
        /\ nread < MaxKeys
        /\ quits(app, e)
        /\ event' = e
        /\ nread' = nread + 1
        /\ term' = [raw_mode |-> FALSE, alternate_screen |-> FALSE, mouse_capture |-> FALSE]
        /\ pc' = "done"
        /\ UNCHANGED app

NextTyping ==
    \/ Draw
    \/ KeyPress
    \/ KeyQuit

\* The loop driven by typing keys only, with no failing draw or read.
SpecTyping == Init /\ [][NextTyping]_vars

\* ----------------------------------------------------------------- claims


cursor == app.selected_list_index
items == app.items

KeyJ == Key("Char", "j", "NONE")
KeyK == Key("Char", "k", "NONE")
KeyD == Key("Char", "d", "NONE")
KeyEnter == Key("Enter", "", "NONE")

\* This step reads event e while the mode is m.
Handles(e, m) ==
    /\ pc = "read"
    /\ app.mode = m
    /\ event' = e
    /\ nread' = nread + 1

aaa == Str("a", 3)
bbb == Str("b", 3)
ccc == Str("c", 3)

\* C1: in every reachable state the cursor is absent exactly when the item
\* list is empty, and otherwise holds an index c with 0 <= c < len(items).
C1_CursorInvariant ==
    /\ (cursor = None) <=> (items = << >>)
    /\ items # << >> => cursor[1] \in 0..(Len(items) - 1)

\* The list has been emptied by `d`, and the cursor is absent.
C1_Witness ==
    /\ event = KeyD
    /\ items = << >>
    /\ cursor = None

\* C2: Enter in Insert mode, with buffer b and list L: afterwards the list is
\* L with b appended (also when b is empty), the buffer is empty, the mode is
\* Normal, the length grew by exactly 1, and the cursor is 0 if it was absent
\* and unchanged otherwise.
C2_CommitInput ==
    [][Handles(KeyEnter, "Insert") =>
        /\ app'.items = Append(items, app.input)
        /\ app'.input = << >>
        /\ app'.mode = "Normal"
        /\ Len(app'.items) = Len(items) + 1
        /\ app'.selected_list_index = IF cursor = None THEN Some(0) ELSE cursor]_vars

\* d, d, d, i, Enter: an empty buffer has been committed to the emptied list,
\* whose cursor was absent.
C2_Witness ==
    /\ event = KeyEnter
    /\ pc = "draw"
    /\ items = << << >> >>
    /\ cursor = Some(0)
    /\ app.input = << >>
    /\ app.mode = "Normal"

\* i, x, Enter: a typed buffer has been committed after the three initial items.
C2_WitnessTyped ==
    /\ event = KeyEnter
    /\ pc = "draw"
    /\ items = << aaa, bbb, ccc, << "x" >> >>
    /\ cursor = Some(1)
    /\ app.input = << >>

\* C3: `d` with the cursor on the last index of a list of length len >= 2
\* removes the last item and leaves the cursor at len - 2.
C3_DeleteLast ==
    [][(/\ Handles(KeyD, "Normal")
        /\ Len(items) >= 2
        /\ cursor = Some(Len(items) - 1)) =>
        /\ app'.items = SubSeq(items, 1, Len(items) - 1)
        /\ app'.selected_list_index = Some(Len(items) - 2)]_vars

\* j, d from the start: "ccc" has been deleted and the cursor is on "bbb".
C3_Witness ==
    /\ event = KeyD
    /\ nread = 2
    /\ items = << aaa, bbb >>
    /\ cursor = Some(1)

\* C4: `d` on a list of exactly one item leaves the list empty and the cursor
\* absent; a further d, j or k in that state changes nothing.
C4_DeleteOnly ==
    [][/\ (/\ Handles(KeyD, "Normal")
           /\ Len(items) = 1
           /\ cursor = Some(0)) =>
              /\ app'.items = << >>
              /\ app'.selected_list_index = None
       /\ (/\ \E e \in {KeyD, KeyJ, KeyK} : Handles(e, "Normal")
           /\ items = << >>
           /\ cursor = None) =>
              /\ app' = app
              /\ pc' = "draw"
              /\ term' = term]_vars

\* d, d, d has emptied the list, and a fourth d, j or k has been handled.
C4_Witness ==
    /\ event \in {KeyD, KeyJ, KeyK}
    /\ nread = 4
    /\ pc = "draw"
    /\ items = << >>
    /\ cursor = None

\* C5: `d` with the cursor at an index n < len - 1 removes exactly the item at
\* n, keeps the others in order, leaves the cursor at n (now the item that was
\* at n + 1), and leaves mode and buffer unchanged.
C5_DeleteInner ==
    [][(/\ Handles(KeyD, "Normal")
        /\ cursor # None
        /\ cursor[1] < Len(items) - 1) =>
        LET n == cursor[1] IN
        /\ app'.items = SubSeq(items, 1, n) \o SubSeq(items, n + 2, Len(items))
        /\ app'.selected_list_index = Some(n)
        /\ app'.items[n + 1] = items[n + 2]
        /\ app'.mode = app.mode
        /\ app'.input = app.input]_vars

\* d from the start: "bbb" has been deleted and the cursor is on "ccc".
C5_Witness ==
    /\ event = KeyD
    /\ nread = 1
    /\ items = << aaa, ccc >>
    /\ cursor = Some(1)

\* C6: `j`: nothing changes if the cursor is absent; otherwise the new cursor
\* is (cursor + 1) mod len(items), and list, buffer and mode are unchanged.
C6_SelectNext ==
    [][Handles(KeyJ, "Normal") =>
        IF cursor = None
        THEN app' = app
        ELSE /\ app'.selected_list_index = Some((cursor[1] + 1) % Len(items))
             /\ app'.items = items
             /\ app'.input = app.input
             /\ app'.mode = app.mode]_vars

\* j, j from the start: the cursor has wrapped from 2 to 0.
C6_Witness ==
    /\ event = KeyJ
    /\ nread = 2
    /\ Len(items) = 3
    /\ cursor = Some(0)

\* C7: `k`: nothing changes if the cursor is absent; otherwise the new cursor
\* is (cursor - 1 + len(items)) mod len(items), and list, buffer and mode are
\* unchanged.
C7_SelectPrevious ==
    [][Handles(KeyK, "Normal") =>
        IF cursor = None
        THEN app' = app
        ELSE /\ app'.selected_list_index =
                    Some((cursor[1] - 1 + Len(items)) % Len(items))
             /\ app'.items = items
             /\ app'.input = app.input
             /\ app'.mode = app.mode]_vars

\* k, k from the start: the cursor has wrapped from 0 to 2.
C7_Witness ==
    /\ event = KeyK
    /\ nread = 2
    /\ Len(items) = 3
    /\ cursor = Some(2)

\* select_next applied k times.
RECURSIVE select_next_times(_, _)
select_next_times(a, k) ==
    IF k = 0 THEN a ELSE select_next_times(select_next(a), k - 1)

\* C8: in every reachable state with a non-empty list of length len, and for
\* every cursor value, select_next applied len times returns the cursor to
\* its original value.
C8_SelectNextCycle ==
    items # << >> =>
        \A c \in {cursor[1]} \cup (0..(Len(items) - 1)) :
            LET a == [app EXCEPT !.selected_list_index = Some(c)] IN
            select_next_times(a, Len(items)).selected_list_index = Some(c)

\* j, j, j from the start: the cursor is back on "bbb".
C8_Witness ==
    /\ event = KeyJ
    /\ nread = 3
    /\ items = << aaa, bbb, ccc >>
    /\ cursor = Some(1)

\* C9: in every reachable state with a non-empty list, select_next followed by
\* select_previous, and select_previous followed by select_next, leave the
\* whole App (cursor, list, buffer, mode) as it was.
C9_PreviousInvertsNext ==
    items # << >> =>
        /\ select_previous(select_next(app)) = app
        /\ select_next(select_previous(app)) = app

\* j, k from the start: the App is the initial one again.
C9_Witness ==
    /\ event = KeyK
    /\ nread = 2
    /\ app = [selected_list_index |-> Some(1), items |-> << aaa, bbb, ccc >>,
              input |-> << >>, mode |-> "Normal"]

\* The App with the initial list and buffer, in Normal mode, cursor at c.
Started(c) ==
    [selected_list_index |-> Some(c), items |-> << aaa, bbb, ccc >>,
     input |-> << >>, mode |-> "Normal"]

\* C10: the program starts in Normal mode with items ["aaa","bbb","ccc"],
\* cursor 1 and an empty buffer; from there j gives cursor 2, a second j gives
\* cursor 0, and d then gives the list ["bbb","ccc"] with cursor 0.
C10_Scenario ==
    /\ app = Started(1)
    /\ [][/\ (app = Started(1) /\ Handles(KeyJ, "Normal")) => app' = Started(2)
          /\ (app = Started(2) /\ Handles(KeyJ, "Normal")) => app' = Started(0)
          /\ (app = Started(0) /\ Handles(KeyD, "Normal")) =>
                app' = [Started(0) EXCEPT !.items = << bbb, ccc >>]]_vars

\* j, j, d from the start: "aaa" has been deleted and the cursor is on "bbb".
C10_Witness ==
    /\ event = KeyD
    /\ nread = 3
    /\ pc = "draw"
    /\ items = << bbb, ccc >>
    /\ cursor = Some(0)
    /\ app.mode = "Normal"
    /\ app.input = << >>


\* Every handled event of the loop changes the App as dispatch does.
DispatchAgrees ==
    [][(pc = "read" /\ pc' = "draw") => app' = dispatch(app, event')]_vars

KeyI == Key("Char", "i", "NONE")
KeyX == Key("Char", "x", "NONE")
KeyY == Key("Char", "y", "NONE")
KeyZ == Key("Char", "z", "NONE")
KeyEsc == Key("Esc", "", "NONE")

\* The App holding the single item "xyz", selected, in Normal mode, with an
\* empty buffer.
OnlyXyz ==
    [selected_list_index |-> Some(0), items |-> << << "x", "y", "z" >> >>,
     input |-> << >>, mode |-> "Normal"]

\* C11, as claimed: from every reachable Normal-mode state with an empty item
\* list, the keys i, x, y, z, Enter end with the list ["xyz"], cursor 0, mode
\* Normal and an empty buffer.
C11_TypeXyzFromEmptyList ==
    (app.mode = "Normal" /\ items = << >>) =>
        dispatch_all(app, << KeyI, KeyX, KeyY, KeyZ, KeyEnter >>) = OnlyXyz

\* C11, amended: from every reachable Normal-mode state with an empty item
\* list and an empty input buffer, the keys i, x, y, z, Enter end with the
\* list ["xyz"], cursor 0, mode Normal and an empty buffer.
C11_TypeXyzFromEmptyListAndBuffer ==
    (app.mode = "Normal" /\ items = << >> /\ app.input = << >>) =>
        dispatch_all(app, << KeyI, KeyX, KeyY, KeyZ, KeyEnter >>) = OnlyXyz

\* d, d, d, i, x, y, z, Enter from the start: "xyz" is the only item.
C11_Witness ==
    /\ event = KeyEnter
    /\ nread = 8
    /\ pc = "draw"
    /\ app = OnlyXyz


KeyHelp == Key("Char", "?", "NONE")

\* C12: `?` in Normal mode sets the mode to Popup; in Popup mode each of Esc,
\* Enter and `?` sets the mode to Normal and every other event leaves it at
\* Popup; no event received in Popup mode changes the list, the cursor or the
\* buffer, or ends the program.
C12_Popup ==
    [][/\ Handles(KeyHelp, "Normal") => app'.mode = "Popup"
       /\ \A e \in Events :
            Handles(e, "Popup") =>
                /\ app'.mode = IF e \in {KeyEsc, KeyEnter, KeyHelp}
                               THEN "Normal" ELSE "Popup"
                /\ app'.items = items
                /\ app'.selected_list_index = cursor
                /\ app'.input = app.input
                /\ pc' = "draw"
                /\ term' = term]_vars

\* ?, ? from the start: the popup has been opened and closed again.
C12_Witness ==
    /\ event = KeyHelp
    /\ nread = 2
    /\ pc = "draw"
    /\ app.mode = "Normal"


\* C13: Esc in Insert mode changes only the mode, to Normal: the buffer, the
\* list and the cursor stay as they were; no event handled in Normal or Popup
\* mode changes the buffer, and `i` enters Insert mode with the buffer as it is.
C13_EscKeepsBuffer ==
    [][/\ Handles(KeyEsc, "Insert") =>
            /\ app' = [app EXCEPT !.mode = "Normal"]
            /\ pc' = "draw"
       /\ \A e \in Events :
            (Handles(e, "Normal") \/ Handles(e, "Popup")) => app'.input = app.input
       /\ Handles(KeyI, "Normal") =>
            /\ app'.mode = "Insert"
            /\ app'.input = app.input]_vars

\* i, x, Esc, i from the start: Insert mode again, with the "x" typed before.
C13_Witness ==
    /\ event = KeyI
    /\ nread = 4
    /\ app.mode = "Insert"
    /\ app.input = << "x" >>
    /\ items = << aaa, bbb, ccc >>
    /\ cursor = Some(1)


\* The dispatch table: the unmodified keys each mode binds.
InTable(m, e) ==
    /\ e.kind = "Key"
    /\ e.modifiers = "NONE"
    /\ \/ m = "Normal" /\ e.code = "Esc"
       \/ m = "Normal" /\ e.code = "Char" /\ e.ch \in {"i", "j", "k", "d", "?"}
       \/ m = "Insert" /\ e.code \in {"Esc", "Enter", "Char", "Backspace"}
       \/ m = "Popup" /\ e.code \in {"Esc", "Enter"}
       \/ m = "Popup" /\ e.code = "Char" /\ e.ch = "?"

\* C14: a key event that is not in the dispatch table for the current mode,
\* and so every key event with a modifier, leaves mode, list, cursor and
\* buffer unchanged and does not end the program.
C14_UnlistedIgnored ==
    [][\A m \in Mode : \A e \in Events :
          (Handles(e, m) /\ e.kind = "Key" /\ ~ InTable(m, e)) =>
              /\ app' = app
              /\ pc' = "draw"
              /\ term' = term]_vars

\* Ctrl+Esc as the first event: the program is still running, unchanged.
C14_Witness ==
    /\ event = Key("Esc", "", "CONTROL")
    /\ nread = 1
    /\ pc = "draw"
    /\ app = Started(1)

\* i, then Ctrl+x: Insert mode, and nothing has been typed.
C14_WitnessInsert ==
    /\ event = Key("Char", "x", "CONTROL")
    /\ nread = 2
    /\ pc = "draw"
    /\ app = [Started(1) EXCEPT !.mode = "Insert"]


\* C15: main returns Ok(()) only in the step that handles an unmodified Esc in
\* Normal mode; Esc in Insert or Popup mode, and every other event in any
\* mode, leaves the program running.
C15_QuitOnlyNormalEsc ==
    [][/\ (pc # "done" /\ pc' = "done") => Handles(KeyEsc, "Normal")
       /\ \A m \in Mode : \A e \in Events :
            (Handles(e, m) /\ ~ (m = "Normal" /\ e = KeyEsc)) => pc' = "draw"]_vars

\* Three events from the start, the last an Esc read in Normal mode: main has
\* returned Ok(()).
C15_Witness ==
    /\ pc = "done"
    /\ event = KeyEsc
    /\ nread = 3
    /\ app = Started(1)


\* The terminal as it was before main set it up.
Restored ==
    [raw_mode |-> FALSE, alternate_screen |-> FALSE, mouse_capture |-> FALSE]

\* C16: whenever main has ended, by the quit command, by a failed draw or read,
\* or otherwise, raw mode is off, the alternate screen is left and mouse
\* capture is off.
C16_TerminalRestoredOnExit ==
    pc \in {"done", "failed", "panicked"} => term = Restored

\* C17: each iteration reads one event; after an event that does not end the
\* program, the App it produced is drawn before the next event is read, so no
\* two events are read without a draw between them.
C17_DrawBetweenReads ==
    [][/\ nread' \in {nread, nread + 1}
       /\ nread' = nread + 1 => (pc = "read" /\ pc' # "read")
       /\ pc' = "read" => (pc = "draw" /\ app' = app /\ nread' = nread)]_vars

\* j, then the draw of the App with the cursor on "ccc": main waits for the
\* second event.
C17_Witness ==
    /\ pc = "read"
    /\ nread = 1
    /\ app = Started(2)

\* C18: in no reachable state can a method fail: select_next and
\* select_previous would not compute len - 1 on an empty list with a cursor
\* present, delete_selected_item would not remove at an index >= len, and no
\* method has panicked.
C18_NoOperationFails ==
    /\ ~ select_next_overflows(app)
    /\ ~ select_previous_overflows(app)
    /\ ~ delete_selected_item_panics(app)
    /\ cursor # None => Len(items) >= 1 /\ cursor[1] < Len(items)
    /\ pc # "panicked"

\* d, d, d and two more events, the last one k on the emptied list: the
\* program runs on.
C18_Witness ==
    /\ event = KeyK
    /\ nread = 5
    /\ pc = "draw"
    /\ items = << >>
    /\ cursor = None

KeyBackspace == Key("Backspace", "", "NONE")

\* C19: in Insert mode an unmodified character key appends that character to
\* the end of the buffer; an unmodified Backspace removes the last character
\* of a non-empty buffer and changes nothing when it is empty; both leave
\* mode, list and cursor unchanged.
C19_InsertEditing ==
    [][/\ \A c \in Chars :
            Handles(Key("Char", c, "NONE"), "Insert") =>
                /\ app'.input = app.input \o << c >>
                /\ app'.mode = "Insert"
                /\ app'.items = items
                /\ app'.selected_list_index = cursor
       /\ Handles(KeyBackspace, "Insert") =>
            /\ IF app.input = << >>
               THEN app'.input = << >>
               ELSE app'.input \o << app.input[Len(app.input)] >> = app.input
            /\ app'.mode = "Insert"
            /\ app'.items = items
            /\ app'.selected_list_index = cursor]_vars

\* i, x, j, Backspace from the start: the "j" typed last has been removed.
C19_Witness ==
    /\ event = KeyBackspace
    /\ nread = 4
    /\ pc = "draw"
    /\ app = [Started(1) EXCEPT !.mode = "Insert", !.input = << "x" >>]

\* i, Backspace from the start: Backspace on the empty buffer.
C19_WitnessEmpty ==
    /\ event = KeyBackspace
    /\ nread = 2
    /\ pc = "draw"
    /\ app = [Started(1) EXCEPT !.mode = "Insert"]

\* C20: an unmodified Esc read in Normal mode ends the program; read in Insert
\* or Popup mode it leaves the program running in Normal mode, where the draw
\* that follows changes nothing: so two consecutive Esc presses end the
\* program from every state.
C20_TwoEscQuit ==
    [][/\ Handles(KeyEsc, "Normal") => pc' \in {"done", "failed"}
       /\ \A m \in {"Insert", "Popup"} :
            Handles(KeyEsc, m) => (pc' = "draw" /\ app'.mode = "Normal")
       /\ (pc = "draw" /\ pc' = "read") => app' = app]_vars

\* i, x, Esc, Esc from the start: the first Esc left Insert mode, the second
\* ended the program.
C20_Witness ==
    /\ pc = "done"
    /\ event = KeyEsc
    /\ nread = 4
    /\ app = [Started(1) EXCEPT !.input = << "x" >>]

=============================================================================
